---------------------------- MODULE Spec2Model ----------------------------
(* A model of cfgrib/bindings.py: the CFFI binding layer over the ecCodes   *)
(* library.  The native library is the environment: every foreign call      *)
(* answers with a status code, a return value and out-parameters chosen     *)
(* nondeterministically; the Python functions of bindings.py are operators  *)
(* over those answers, and one action per function applies them.            *)
EXTENDS Integers, Sequences, FiniteSets

VARIABLES platform, hstate, store, istate, index, outfile, last

vars == <<platform, hstate, store, istate, index, outfile, last>>

(* ------------------------------ bounds --------------------------------- *)
MaxHandles == 2
MaxIters == 1
NKeys == 2
MaxLen == 2
MaxMsgs == 2
MaxWrites == 2

(* --------------------------- module constants --------------------------- *)
CODES_PRODUCT_ANY == 0
CODES_PRODUCT_GRIB == 1
CODES_PRODUCT_BUFR == 2
CODES_PRODUCT_METAR == 3
CODES_PRODUCT_GTS == 4
CODES_PRODUCT_TAF == 5

ProductKinds ==
    {CODES_PRODUCT_ANY, CODES_PRODUCT_GRIB, CODES_PRODUCT_BUFR,
     CODES_PRODUCT_METAR, CODES_PRODUCT_GTS, CODES_PRODUCT_TAF}

(* Status codes of the native library, kept symbolic as the source keeps    *)
(* them (lib.GRIB_SUCCESS, ...).  Codes is the sample the library reports.  *)
GRIB_SUCCESS == "GRIB_SUCCESS"
GRIB_END_OF_FILE == "GRIB_END_OF_FILE"
GRIB_NULL_POINTER == "GRIB_NULL_POINTER"
GRIB_END_OF_INDEX == "GRIB_END_OF_INDEX"
GRIB_NOT_FOUND == "GRIB_NOT_FOUND"

Codes == {GRIB_SUCCESS, GRIB_END_OF_FILE, GRIB_END_OF_INDEX, GRIB_NOT_FOUND}

CODES_TYPE_UNDEFINED == "GRIB_TYPE_UNDEFINED"
CODES_TYPE_LONG == "GRIB_TYPE_LONG"
CODES_TYPE_DOUBLE == "GRIB_TYPE_DOUBLE"
CODES_TYPE_STRING == "GRIB_TYPE_STRING"
CODES_TYPE_BYTES == "GRIB_TYPE_BYTES"
CODES_TYPE_SECTION == "GRIB_TYPE_SECTION"
CODES_TYPE_LABEL == "GRIB_TYPE_LABEL"
CODES_TYPE_MISSING == "GRIB_TYPE_MISSING"

NativeTypes ==
    {CODES_TYPE_UNDEFINED, CODES_TYPE_LONG, CODES_TYPE_DOUBLE, CODES_TYPE_STRING,
     CODES_TYPE_BYTES, CODES_TYPE_SECTION, CODES_TYPE_LABEL, CODES_TYPE_MISSING}

(* ----------------------------- host values ------------------------------ *)
(* A Python value is a record tagged with its dynamic type.                 *)
PyNone == [t |-> "NoneType", v |-> 0]
PyInt(n) == [t |-> "int", v |-> n]
PyBool(n) == [t |-> "bool", v |-> n]
PyFloat(n) == [t |-> "float", v |-> n]
PyBytes(n) == [t |-> "bytes", v |-> n]
PyList(s) == [t |-> "list", v |-> s]

(* isinstance: bool is a subclass of int.                                   *)
isinstance(x, ty) ==
    \/ x.t = ty
    \/ ty = "int" /\ x.t = "bool"

(* A cdata pointer: the Python object's identity and the address it holds.  *)
(* ffi.NULL is one object of the ffi; a pointer a foreign call returns is a *)
(* new object, whatever address it holds.                                  *)
FFI_NULL == [t |-> "cdata", id |-> 0, ptr |-> 0]
NewCData(p) == [t |-> "cdata", id |-> 1, ptr |-> p]

\* cdata == cdata compares the addresses
CDataEq(a, b) == a.ptr = b.ptr
\* cdata is cdata compares the objects
CDataIs(a, b) == a.id = b.id

(* What a call of this layer comes to: a value returned or an exception.    *)
Return(v) == [exc |-> "none", code |-> "none", ret |-> v]
Raise(e) == [exc |-> e, code |-> "none", ret |-> PyNone]
EcCodesError(c) == [exc |-> "EcCodesError", code |-> c, ret |-> PyNone]

(* ------------------------- error translation ---------------------------- *)
\* faulty variant: only the end-of-file status is taken for a failure
check_last_EofOnly(code, retval) ==
    IF code = GRIB_END_OF_FILE THEN EcCodesError(code) ELSE Return(retval)

\* check_last(func)(*args): the status is the call's last out-parameter
check_last(code, retval) ==
    IF code # GRIB_SUCCESS THEN EcCodesError(code) ELSE Return(retval)

\* check_return(func)(*args): the status is the call's return value
check_return(code) ==
    IF code # GRIB_SUCCESS THEN EcCodesError(code) ELSE Return(PyNone)

(* --------------------------- handle lifecycle --------------------------- *)
Handles == 1..MaxHandles
Iters == 1..MaxIters

\* the address of the next object the native library can allocate, 0 if none
Fresh(hs) ==
    IF \E h \in DOMAIN hs : hs[h] = "free"
    THEN CHOOSE h \in DOMAIN hs : hs[h] = "free" /\ \A g \in DOMAIN hs : hs[g] = "free" => h <= g
    ELSE 0

Alloc(hs, p) == IF p = 0 THEN hs ELSE [hs EXCEPT ![p] = "live"]

Live(hs) == {h \in DOMAIN hs : hs[h] = "live"}

\* the key under study on a message: its native type and its stored values
EmptyStore == [type |-> CODES_TYPE_LONG, vals |-> <<>>]

\* faulty variant: the end-of-file status is not told apart from the other failures
codes_handle_new_from_file_NoEofCode(code, retval) ==
    LET r == check_last(code, retval) IN
    IF r.exc = "EcCodesError" THEN r
    ELSE IF CDataEq(r.ret, FFI_NULL) THEN Raise("EOFError")
    ELSE r

codes_handle_new_from_file(code, retval) ==
    LET r == check_last(code, retval) IN
    IF r.exc = "EcCodesError"
    THEN IF r.code = GRIB_END_OF_FILE THEN Raise("EOFError") ELSE r
    ELSE IF CDataEq(r.ret, FFI_NULL) THEN Raise("EOFError")
    ELSE r

codes_handle_clone(cloned_handle) ==
    IF CDataIs(cloned_handle, FFI_NULL)
    THEN EcCodesError(GRIB_NULL_POINTER)
    ELSE Return(cloned_handle)

\* faulty variant: the index read translates end of input as the file read does
codes_new_from_index_AsFile(code, retval) == codes_handle_new_from_file(code, retval)

codes_new_from_index(code, retval) == check_last(code, retval)


(* ------------------------------- samples -------------------------------- *)
\* portable_handle_new_from_samples: on Windows the sample's file is opened
\* and read as a message; every exception of that attempt is passed over.
\* windows: platform.platform().startswith('Windows'); openOK: open() gave a
\* file; (code, retval): the answer of lib.codes_handle_new_from_file.
portable_handle_new_from_samples(windows, openOK, code, retval) ==
    IF ~windows THEN [handle |-> FFI_NULL, calls |-> <<>>]
    ELSE IF ~openOK THEN [handle |-> FFI_NULL, calls |-> <<"codes_samples_path", "open">>]
    ELSE LET r == codes_handle_new_from_file(code, retval) IN
         [handle |-> IF r.exc = "none" THEN r.ret ELSE FFI_NULL,
          calls |-> <<"codes_samples_path", "open", "codes_handle_new_from_file">>]

\* faulty variant: the handle of the native sample call is returned unchecked
codes_new_from_samples_Unchecked(windows, product_kind, openOK, code, retval, sample) ==
    LET p == portable_handle_new_from_samples(windows, openOK, code, retval) IN
    IF ~CDataEq(p.handle, FFI_NULL)
    THEN [exc |-> "none", code |-> "none", ret |-> p.handle, calls |-> p.calls]
    ELSE IF product_kind = CODES_PRODUCT_GRIB
    THEN [exc |-> "none", code |-> "none", ret |-> sample,
          calls |-> Append(p.calls, "codes_grib_handle_new_from_samples")]
    ELSE IF product_kind = CODES_PRODUCT_BUFR
    THEN [exc |-> "none", code |-> "none", ret |-> sample,
          calls |-> Append(p.calls, "codes_bufr_handle_new_from_samples")]
    ELSE [exc |-> "NotImplementedError", code |-> "none", ret |-> PyNone, calls |-> p.calls]

\* codes_new_from_samples; sample: the answer of the native sample call
codes_new_from_samples(windows, product_kind, openOK, code, retval, sample) ==
    LET p == portable_handle_new_from_samples(windows, openOK, code, retval)
        found(fn) ==
            IF CDataEq(sample, FFI_NULL)
            THEN [exc |-> "ValueError", code |-> "none", ret |-> PyNone,
                  calls |-> Append(p.calls, fn)]
            ELSE [exc |-> "none", code |-> "none", ret |-> sample,
                  calls |-> Append(p.calls, fn)]
    IN
    IF ~CDataEq(p.handle, FFI_NULL)
    THEN [exc |-> "none", code |-> "none", ret |-> p.handle, calls |-> p.calls]
    ELSE IF product_kind = CODES_PRODUCT_GRIB
    THEN found("codes_grib_handle_new_from_samples")
    ELSE IF product_kind = CODES_PRODUCT_BUFR
    THEN found("codes_bufr_handle_new_from_samples")
    ELSE [exc |-> "NotImplementedError", code |-> "none", ret |-> PyNone, calls |-> p.calls]

\* whether call fn is among the native calls of a trace
Called(calls, fn) == \E i \in DOMAIN calls : calls[i] = fn

(* ---------------------------- key iterators ----------------------------- *)
FreeIter == [st |-> "free", h |-> 0, pos |-> 0]

\* codes_keys_iterator_new: the native pointer is returned as it is
codes_keys_iterator_new(retval) == Return(retval)

\* codes_keys_iterator_next: the native answer is returned as it is
codes_keys_iterator_next(answer) == Return(PyInt(answer))

\* codes_keys_iterator_get_name: ffi.string of the native name
codes_keys_iterator_get_name(name) == Return(PyBytes(name))

\* codes_keys_iterator_delete: check_return of the native status
codes_keys_iterator_delete(code) == check_return(code)

\* lib.codes_keys_iterator_next on an iterator whose message handle is live:
\* the next key if there is one.  On an iterator whose handle was released
\* the call reads freed memory: any answer, any position.
NativeIterNext(it, hs) ==
    IF hs[it.h] = "live"
    THEN IF it.pos < NKeys
         THEN {[answer |-> 1, pos |-> it.pos + 1]}
         ELSE {[answer |-> 0, pos |-> it.pos]}
    ELSE {[answer |-> a, pos |-> p] : a \in {0, 1}, p \in 0..NKeys}

\* lib.codes_keys_iterator_get_name: the key at the position, any name once
\* the handle was released
NativeIterName(it, hs) ==
    IF hs[it.h] = "live" THEN {it.pos} ELSE 1..NKeys

\* lib.codes_handle_delete: the handle is released; nothing else is touched
NativeHandleDelete(hs, h) == [hs EXCEPT ![h] = "released"]

(* ------------------------------- state ---------------------------------- *)
\* platform: the operating system of the process
\* hstate:   the native message handles, by address: free, live or released
\* store:    the values the key under study holds on each message handle
\* istate:   the native key iterators: state, source handle, position
\* index:    the native index: open, the value selected, messages left
\* last:     the last call of this layer: its arguments, the answers of the
\*           native calls it made, and what it came to
NoCall == [op |-> "none", arg |-> PyNone, nat |-> PyNone, out |-> Return(PyNone)]

\* Calls are synchronous: the caller takes the outcome of a call before it
\* makes the next one.
Idle == last = NoCall

ClosedIndex == [open |-> FALSE, sel |-> PyNone, remaining |-> 0]

Init ==
    /\ platform \in {"Windows", "Linux"}
    /\ hstate = [h \in Handles |-> "free"]
    /\ store = [h \in Handles |-> EmptyStore]
    /\ istate = [i \in Iters |-> FreeIter]
    /\ index = ClosedIndex
    /\ outfile = <<>>
    /\ last = NoCall

\* values a wrapped native call may hand back
WrappedRetVals == {NewCData(0), NewCData(1), PyInt(0), PyInt(1)}

\* a call of any native function wrapped by check_last
CallCheckLast ==
    /\ Idle
    /\ \E code \in Codes, retval \in WrappedRetVals :
           /\ last' = [op |-> "check_last", arg |-> PyNone,
                       nat |-> [code |-> code, ret |-> retval],
                       out |-> check_last(code, retval)]
           /\ UNCHANGED <<platform, hstate, store, istate, index, outfile>>

\* a call of any native function wrapped by check_return
CallCheckReturn ==
    /\ Idle
    /\ \E code \in Codes :
           /\ last' = [op |-> "check_return", arg |-> PyNone,
                       nat |-> [code |-> code, ret |-> PyNone],
                       out |-> check_return(code)]
           /\ UNCHANGED <<platform, hstate, store, istate, index, outfile>>

HandleNewFromFile ==
    /\ Idle
    /\ \E code \in Codes, p \in {0, Fresh(hstate)} :
           /\ hstate' = Alloc(hstate, p)
           /\ last' = [op |-> "codes_handle_new_from_file", arg |-> PyNone,
                       nat |-> [code |-> code, ret |-> NewCData(p)],
                       out |-> codes_handle_new_from_file(code, NewCData(p))]
           /\ UNCHANGED <<platform, store, istate, index, outfile>>

HandleClone ==
    /\ Idle
    /\ \E h \in Live(hstate), p \in {0, Fresh(hstate)} :
           /\ hstate' = Alloc(hstate, p)
           /\ store' = IF p = 0 THEN store ELSE [store EXCEPT ![p] = store[h]]
           /\ last' = [op |-> "codes_handle_clone", arg |-> NewCData(h),
                       nat |-> [code |-> "none", ret |-> NewCData(p)],
                       out |-> codes_handle_clone(NewCData(p))]
           /\ UNCHANGED <<platform, istate, index, outfile>>

\* codes_handle_delete is lib.codes_handle_delete itself
HandleDelete ==
    /\ Idle
    /\ \E h \in Live(hstate) :
           /\ hstate' = NativeHandleDelete(hstate, h)
           /\ store' = [store EXCEPT ![h] = EmptyStore]
           /\ last' = [op |-> "codes_handle_delete", arg |-> NewCData(h),
                       nat |-> [code |-> GRIB_SUCCESS, ret |-> PyNone],
                       out |-> Return(PyInt(0))]
           /\ UNCHANGED <<platform, istate, index, outfile>>

NewFromSamples ==
    /\ Idle
    /\ \E kind \in ProductKinds, openOK \in BOOLEAN, code \in Codes, p1 \in {0, Fresh(hstate)} :
           LET windows == platform = "Windows"
               attempt == portable_handle_new_from_samples(windows, openOK, code, NewCData(p1))
               read == Called(attempt.calls, "codes_handle_new_from_file")
               hs1 == IF read THEN Alloc(hstate, p1) ELSE hstate
           IN
           \E p2 \in {0, Fresh(hs1)} :
               LET out == codes_new_from_samples(windows, kind, openOK, code, NewCData(p1), NewCData(p2))
                   direct == \/ Called(out.calls, "codes_grib_handle_new_from_samples")
                             \/ Called(out.calls, "codes_bufr_handle_new_from_samples")
               IN
               /\ hstate' = IF direct THEN Alloc(hs1, p2) ELSE hs1
               /\ last' = [op |-> "codes_new_from_samples", arg |-> PyInt(kind),
                           nat |-> [opened |-> windows /\ openOK,
                                    code |-> IF read THEN code ELSE "none",
                                    ret |-> IF read THEN NewCData(p1) ELSE FFI_NULL,
                                    sample |-> IF direct THEN NewCData(p2) ELSE FFI_NULL],
                           out |-> out]
               /\ UNCHANGED <<platform, store, istate, index, outfile>>

FreshIter(is) ==
    IF \E i \in DOMAIN is : is[i].st = "free"
    THEN CHOOSE i \in DOMAIN is : is[i].st = "free" /\ \A j \in DOMAIN is : is[j].st = "free" => i <= j
    ELSE 0

KeysIteratorNew ==
    /\ Idle
    /\ \E h \in Live(hstate), p \in {0, FreshIter(istate)} :
           /\ istate' = IF p = 0 THEN istate
                        ELSE [istate EXCEPT ![p] = [st |-> "live", h |-> h, pos |-> 0]]
           /\ last' = [op |-> "codes_keys_iterator_new", arg |-> NewCData(h),
                       nat |-> [code |-> "none", ret |-> NewCData(p)],
                       out |-> codes_keys_iterator_new(NewCData(p))]
           /\ UNCHANGED <<platform, hstate, store, index, outfile>>

KeysIteratorNext ==
    /\ Idle
    /\ \E i \in Iters :
           /\ istate[i].st = "live"
           /\ \E n \in NativeIterNext(istate[i], hstate) :
               /\ istate' = [istate EXCEPT ![i].pos = n.pos]
               /\ last' = [op |-> "codes_keys_iterator_next", arg |-> NewCData(i),
                           nat |-> [code |-> "none", ret |-> PyInt(n.answer)],
                           out |-> codes_keys_iterator_next(n.answer)]
           /\ UNCHANGED <<platform, hstate, store, index, outfile>>

KeysIteratorGetName ==
    /\ Idle
    /\ \E i \in Iters :
           /\ istate[i].st = "live"
           /\ istate[i].pos >= 1
           /\ \E name \in NativeIterName(istate[i], hstate) :
               last' = [op |-> "codes_keys_iterator_get_name", arg |-> NewCData(i),
                        nat |-> [code |-> "none", ret |-> PyBytes(name)],
                        out |-> codes_keys_iterator_get_name(name)]
           /\ UNCHANGED <<platform, hstate, store, istate, index, outfile>>

KeysIteratorDelete ==
    /\ Idle
    /\ \E i \in Iters, code \in Codes :
           /\ istate[i].st = "live"
           /\ istate' = IF code = GRIB_SUCCESS
                        THEN [istate EXCEPT ![i].st = "released"]
                        ELSE istate
           /\ last' = [op |-> "codes_keys_iterator_delete", arg |-> NewCData(i),
                       nat |-> [code |-> code, ret |-> PyNone],
                       out |-> codes_keys_iterator_delete(code)]
           /\ UNCHANGED <<platform, hstate, store, index, outfile>>

\* the caller takes the outcome of the call
Consume ==
    /\ ~Idle
    /\ last' = NoCall
    /\ UNCHANGED <<platform, hstate, store, istate, index, outfile>>

Next ==
    \/ CallCheckLast
    \/ CallCheckReturn
    \/ HandleNewFromFile
    \/ HandleClone
    \/ HandleDelete
    \/ NewFromSamples
    \/ KeysIteratorNew
    \/ KeysIteratorNext
    \/ KeysIteratorGetName
    \/ KeysIteratorDelete
    \/ Consume

Spec == Init /\ [][Next]_vars

(* ------------------------------- index ---------------------------------- *)
\* codes_index_new_from_file: check_last of the native call
codes_index_new_from_file(code, retval) == check_last(code, retval)

\* faulty variant: the integer test comes after the floating-point test and takes
\* what is left
codes_index_select_IntLast(value, code) ==
    LET done(fn) == [exc |-> check_return(code).exc, code |-> check_return(code).code,
                     ret |-> PyNone, calls |-> <<fn>>]
    IN
    IF isinstance(value, "float") THEN done("codes_index_select_double")
    ELSE IF isinstance(value, "bytes") THEN done("codes_index_select_string")
    ELSE done("codes_index_select_long")

\* codes_index_select; code: the status of the native select call it issues
codes_index_select(value, code) ==
    LET done(fn) == [exc |-> check_return(code).exc, code |-> check_return(code).code,
                     ret |-> PyNone, calls |-> <<fn>>]
    IN
    IF isinstance(value, "int") THEN done("codes_index_select_long")
    ELSE IF isinstance(value, "float") THEN done("codes_index_select_double")
    ELSE IF isinstance(value, "bytes") THEN done("codes_index_select_string")
    ELSE [exc |-> "RuntimeError", code |-> "none", ret |-> PyNone, calls |-> <<>>]

\* values handed to codes_index_select
SelectValues ==
    {PyInt(1), PyBool(1), PyFloat(1), PyBytes(1), PyNone, [t |-> "str", v |-> 1]}

IndexNewFromFile ==
    /\ Idle
    /\ \E code \in Codes, p \in {0, 1}, n \in 0..MaxMsgs :
           /\ ~index.open
           /\ index' = IF p = 0 THEN index
                       ELSE [open |-> TRUE, sel |-> PyNone, remaining |-> n]
           /\ last' = [op |-> "codes_index_new_from_file", arg |-> PyNone,
                       nat |-> [code |-> code, ret |-> NewCData(p)],
                       out |-> codes_index_new_from_file(code, NewCData(p))]
           /\ UNCHANGED <<platform, hstate, store, istate, outfile>>

\* codes_index_delete is lib.codes_index_delete itself
IndexDelete ==
    /\ Idle
    /\ /\ index.open
       /\ index' = ClosedIndex
       /\ last' = [op |-> "codes_index_delete", arg |-> PyNone,
                   nat |-> [code |-> GRIB_SUCCESS, ret |-> PyNone],
                   out |-> Return(PyNone)]
       /\ UNCHANGED <<platform, hstate, store, istate, outfile>>

\* a native select that succeeds fixes the value; the messages that match it
\* are the library's to say
IndexSelect ==
    /\ Idle
    /\ \E value \in SelectValues, code \in Codes, n \in 0..MaxMsgs :
           LET out == codes_index_select(value, code) IN
           /\ index.open
           /\ index' = IF out.calls # <<>> /\ code = GRIB_SUCCESS
                       THEN [open |-> TRUE, sel |-> [fn |-> out.calls[1], v |-> value.v],
                             remaining |-> n]
                       ELSE index
           /\ last' = [op |-> "codes_index_select", arg |-> value,
                       nat |-> [code |-> IF out.calls # <<>> THEN code ELSE "none",
                                ret |-> PyNone],
                       out |-> out]
           /\ UNCHANGED <<platform, hstate, store, istate, outfile>>

\* lib.codes_handle_new_from_index: with a message left, the next message's
\* handle and GRIB_SUCCESS, or a failure; with none left, no handle and the
\* status the library chooses for exhaustion
NativeNewFromIndex(idx, hs) ==
    IF idx.remaining > 0 /\ Fresh(hs) # 0
    THEN {[code |-> GRIB_SUCCESS, p |-> Fresh(hs), remaining |-> idx.remaining - 1]}
         \cup {[code |-> c, p |-> 0, remaining |-> idx.remaining] : c \in Codes \ {GRIB_SUCCESS}}
    ELSE {[code |-> c, p |-> 0, remaining |-> idx.remaining] : c \in Codes}

NewFromIndex ==
    /\ Idle
    /\ \E n \in NativeNewFromIndex(index, hstate) :
           /\ index.open
           /\ index' = [index EXCEPT !.remaining = n.remaining]
           /\ hstate' = Alloc(hstate, n.p)
           /\ last' = [op |-> "codes_new_from_index", arg |-> PyInt(index.remaining),
                       nat |-> [code |-> n.code, ret |-> NewCData(n.p)],
                       out |-> codes_new_from_index(n.code, NewCData(n.p))]
           /\ UNCHANGED <<platform, store, istate, outfile>>

NextIndex ==
    \/ IndexNewFromFile
    \/ IndexSelect
    \/ NewFromIndex
    \/ HandleDelete
    \/ IndexDelete
    \/ Consume

SpecIndex == Init /\ [][NextIndex]_vars

(* --------------------------- value marshalling -------------------------- *)
\* what a call of the marshaller comes to: the outcome, the native calls it
\* issued, and the warnings it logged
Outcome(r, calls, warn) ==
    [exc |-> r.exc, code |-> r.code, ret |-> r.ret, calls |-> calls, warn |-> warn]

\* ffi.new("double []", values): an int, a bool or a float initialises a double
DoubleInitializer(values) ==
    \A i \in DOMAIN values : values[i].t \in {"int", "bool", "float"}

\* ffi.new("long []", values): only an int or a bool initialises a long
LongInitializer(values) ==
    \A i \in DOMAIN values : values[i].t \in {"int", "bool"}

\* the C array ffi.new builds from the values
CArray(values) == [i \in DOMAIN values |-> values[i].v]

codes_set_double_array(values, code) ==
    IF ~DoubleInitializer(values) THEN Outcome(Raise("TypeError"), <<>>, 0)
    ELSE Outcome(check_return(code),
                 <<[fn |-> "codes_set_double_array", c_values |-> CArray(values),
                    size |-> Len(values)]>>, 0)

codes_set_long_array(values, code) ==
    IF ~LongInitializer(values) THEN Outcome(Raise("TypeError"), <<>>, 0)
    ELSE Outcome(check_return(code),
                 <<[fn |-> "codes_set_long_array", c_values |-> CArray(values),
                    size |-> Len(values)]>>, 0)

\* the outcome of codes_set_array and the setter it handed the values to
Routed(out, route) ==
    [exc |-> out.exc, code |-> out.code, ret |-> out.ret, calls |-> out.calls,
     warn |-> out.warn, route |-> route]

\* faulty variant: the length is not tested, and what is not a float goes to the
\* long-array set
codes_set_array_NoChecks(values, code) ==
    IF Len(values) > 0 /\ isinstance(values[1], "float")
    THEN Routed(codes_set_double_array(values, code), "codes_set_double_array")
    ELSE Routed(codes_set_long_array(values, code), "codes_set_long_array")

\* codes_set_array; code: the status of the native set call it issues
codes_set_array(values, code) ==
    IF Len(values) > 0
    THEN IF isinstance(values[1], "float")
         THEN Routed(codes_set_double_array(values, code), "codes_set_double_array")
         ELSE IF isinstance(values[1], "int")
         THEN Routed(codes_set_long_array(values, code), "codes_set_long_array")
         ELSE Routed(Outcome(Raise("TypeError"), <<>>, 0), "none")
    ELSE Routed(Outcome(Raise("ValueError"), <<>>, 0), "none")

\* the buffer of size elements ffi.new zero-fills, after the native read has
\* written the stored values into it
Buffer(size, vals) == [i \in 1..size |-> IF i <= Len(vals) THEN vals[i] ELSE 0]

\* faulty variant: the list is cut to the count the native call wrote back
codes_get_long_array_Written(size, code, m, vals) ==
    LET r == check_return(code)
        n == IF m < size THEN m ELSE size
    IN
    IF r.exc # "none" THEN Outcome(r, <<"codes_get_long_array">>, 0)
    ELSE Outcome(Return(PyList([i \in 1..n |-> PyInt(Buffer(size, vals)[i])])),
                 <<"codes_get_long_array">>, 0)

\* codes_get_long_array; (code, m): the status of the native read and the
\* count it wrote back into size_p; vals: the values the key holds
codes_get_long_array(size, code, m, vals) ==
    LET r == check_return(code) IN
    IF r.exc # "none" THEN Outcome(r, <<"codes_get_long_array">>, 0)
    ELSE Outcome(Return(PyList([i \in 1..size |-> PyInt(Buffer(size, vals)[i])])),
                 <<"codes_get_long_array">>, 0)

codes_get_double_array(size, code, m, vals) ==
    LET r == check_return(code) IN
    IF r.exc # "none" THEN Outcome(r, <<"codes_get_double_array">>, 0)
    ELSE Outcome(Return(PyList([i \in 1..size |-> PyFloat(Buffer(size, vals)[i])])),
                 <<"codes_get_double_array">>, 0)

codes_get_bytes_array(size, code, m, vals) ==
    LET r == check_return(code) IN
    IF r.exc # "none" THEN Outcome(r, <<"codes_get_bytes">>, 0)
    ELSE Outcome(Return(PyList([i \in 1..size |-> PyInt(Buffer(size, vals)[i])])),
                 <<"codes_get_bytes">>, 0)

\* codes_get_string_array; length: the argument (PyNone: codes_get_length is
\* asked, with status lcode).  The list runs over range(size_p[0]); an index
\* past the size elements of values raises IndexError.
codes_get_string_array(size, length, lcode, code, m, vals) ==
    LET asked == IF length = PyNone THEN <<"codes_get_length">> ELSE <<>>
        calls == Append(asked, "codes_get_string_array")
        r == check_return(code)
    IN
    IF length = PyNone /\ check_return(lcode).exc # "none"
    THEN Outcome(check_return(lcode), asked, 0)
    ELSE IF r.exc # "none" THEN Outcome(r, calls, 0)
    ELSE IF m > size THEN Outcome(Raise("IndexError"), calls, 0)
    ELSE Outcome(Return(PyList([i \in 1..m |-> PyBytes(Buffer(size, vals)[i])])), calls, 0)

\* the last of the stored values, which a scalar read gives
LastValue(vals) == IF vals = <<>> THEN 0 ELSE vals[Len(vals)]

codes_get_long(code, vals) ==
    LET r == check_return(code) IN
    IF r.exc # "none" THEN Outcome(r, <<"codes_get_long">>, 0)
    ELSE Outcome(Return(PyInt(LastValue(vals))), <<"codes_get_long">>, 0)

codes_get_double(code, vals) ==
    LET r == check_return(code) IN
    IF r.exc # "none" THEN Outcome(r, <<"codes_get_double">>, 0)
    ELSE Outcome(Return(PyFloat(LastValue(vals))), <<"codes_get_double">>, 0)

codes_get_string(length, lcode, code, vals) ==
    LET asked == IF length = PyNone THEN <<"codes_get_length">> ELSE <<>>
        calls == Append(asked, "codes_get_string")
        r == check_return(code)
    IN
    IF length = PyNone /\ check_return(lcode).exc # "none"
    THEN Outcome(check_return(lcode), asked, 0)
    ELSE IF r.exc # "none" THEN Outcome(r, calls, 0)
    ELSE Outcome(Return(PyBytes(LastValue(vals))), calls, 0)

\* the outcome of a call made after the calls before it
After(before, out) ==
    [exc |-> out.exc, code |-> out.code, ret |-> out.ret,
     calls |-> before \o out.calls, warn |-> out.warn]

\* faulty variant: a native type this layer does not read is an error
codes_get_array_Strict(key_type, size, length, nat, vals) ==
    LET probe == IF key_type = "None" THEN <<"codes_get_native_type">> ELSE <<>>
        ty == IF key_type = "None" THEN nat.type ELSE key_type
        sized == IF size = PyNone THEN Append(probe, "codes_get_size") ELSE probe
        n == IF size = PyNone THEN Len(vals) ELSE size.v
    IN
    IF key_type = "None" /\ check_return(nat.tcode).exc # "none"
    THEN Outcome(check_return(nat.tcode), probe, 0)
    ELSE IF size = PyNone /\ check_return(nat.scode).exc # "none"
    THEN Outcome(check_return(nat.scode), sized, 0)
    ELSE IF ty = CODES_TYPE_LONG
    THEN After(sized, codes_get_long_array(n, nat.rcode, nat.m, vals))
    ELSE IF ty = CODES_TYPE_DOUBLE
    THEN After(sized, codes_get_double_array(n, nat.rcode, nat.m, vals))
    ELSE IF ty = CODES_TYPE_STRING
    THEN After(sized, codes_get_string_array(n, length, nat.lcode, nat.rcode, nat.m, vals))
    ELSE IF ty = CODES_TYPE_BYTES
    THEN After(sized, codes_get_bytes_array(n, nat.rcode, nat.m, vals))
    ELSE Outcome(Raise("TypeError"), sized, 0)

\* codes_get_array.  key_type: "None" or a native type; size, length: PyNone
\* or an integer.  nat: the answers of the native calls (tcode, type: the
\* type probe; scode: the size query, which gives the number of stored
\* values; lcode: the length query; rcode, m: the read).
codes_get_array(key_type, size, length, nat, vals) ==
    LET probe == IF key_type = "None" THEN <<"codes_get_native_type">> ELSE <<>>
        ty == IF key_type = "None" THEN nat.type ELSE key_type
        sized == IF size = PyNone THEN Append(probe, "codes_get_size") ELSE probe
        n == IF size = PyNone THEN Len(vals) ELSE size.v
    IN
    IF key_type = "None" /\ check_return(nat.tcode).exc # "none"
    THEN Outcome(check_return(nat.tcode), probe, 0)
    ELSE IF size = PyNone /\ check_return(nat.scode).exc # "none"
    THEN Outcome(check_return(nat.scode), sized, 0)
    ELSE IF ty = CODES_TYPE_LONG
    THEN After(sized, codes_get_long_array(n, nat.rcode, nat.m, vals))
    ELSE IF ty = CODES_TYPE_DOUBLE
    THEN After(sized, codes_get_double_array(n, nat.rcode, nat.m, vals))
    ELSE IF ty = CODES_TYPE_STRING
    THEN After(sized, codes_get_string_array(n, length, nat.lcode, nat.rcode, nat.m, vals))
    ELSE IF ty = CODES_TYPE_BYTES
    THEN After(sized, codes_get_bytes_array(n, nat.rcode, nat.m, vals))
    ELSE Outcome(Return(PyNone), sized, 1)

\* codes_get
codes_get(key_type, length, nat, vals) ==
    LET probe == IF key_type = "None" THEN <<"codes_get_native_type">> ELSE <<>>
        ty == IF key_type = "None" THEN nat.type ELSE key_type
    IN
    IF key_type = "None" /\ check_return(nat.tcode).exc # "none"
    THEN Outcome(check_return(nat.tcode), probe, 0)
    ELSE IF ty = CODES_TYPE_LONG THEN After(probe, codes_get_long(nat.rcode, vals))
    ELSE IF ty = CODES_TYPE_DOUBLE THEN After(probe, codes_get_double(nat.rcode, vals))
    ELSE IF ty = CODES_TYPE_STRING
    THEN After(probe, codes_get_string(length, nat.lcode, nat.rcode, vals))
    ELSE Outcome(Return(PyNone), probe, 1)

\* element values and sequences handed to codes_set_array
PyVals == {PyInt(1), PyBool(1), PyFloat(2), PyBytes(1), PyNone}

PySeqs == UNION {[1..n -> PyVals] : n \in 0..MaxLen}

\* what a message read from a file may hold under the key
InitStores ==
    {[type |-> ty, vals |-> [i \in 1..n |-> 1]] : ty \in NativeTypes, n \in 0..MaxLen}

\* a message handle has been read from a file
InitValues ==
    /\ platform = "Linux"
    /\ hstate = [h \in Handles |-> IF h = 1 THEN "live" ELSE "free"]
    /\ \E st \in InitStores : store = [h \in Handles |-> IF h = 1 THEN st ELSE EmptyStore]
    /\ istate = [i \in Iters |-> FreeIter]
    /\ index = ClosedIndex
    /\ outfile = <<>>
    /\ last = NoCall

\* a native set that succeeds stores the C array it was given
SetArray ==
    /\ Idle
    /\ \E h \in Live(hstate), values \in PySeqs, code \in Codes :
           LET out == codes_set_array(values, code) IN
           /\ store' = IF out.calls # <<>> /\ code = GRIB_SUCCESS
                       THEN [store EXCEPT ![h].vals = out.calls[1].c_values]
                       ELSE store
           /\ last' = [op |-> "codes_set_array", arg |-> [h |-> h, values |-> values],
                       nat |-> [code |-> IF out.calls # <<>> THEN code ELSE "none"],
                       out |-> out]
           /\ UNCHANGED <<platform, hstate, istate, index, outfile>>

ReadCalls ==
    {"codes_get_long_array", "codes_get_double_array", "codes_get_string_array",
     "codes_get_bytes", "codes_get_long", "codes_get_double", "codes_get_string"}

ReadCalled(calls) == \E i \in DOMAIN calls : calls[i] \in ReadCalls

\* the answers of the native calls a get made
Answers(calls, nat) ==
    [tcode |-> IF Called(calls, "codes_get_native_type") THEN nat.tcode ELSE "none",
     type |-> IF Called(calls, "codes_get_native_type") /\ nat.tcode = GRIB_SUCCESS
              THEN nat.type ELSE "none",
     scode |-> IF Called(calls, "codes_get_size") THEN nat.scode ELSE "none",
     lcode |-> IF Called(calls, "codes_get_length") THEN nat.lcode ELSE "none",
     rcode |-> IF ReadCalled(calls) THEN nat.rcode ELSE "none",
     m |-> IF ReadCalled(calls) /\ nat.rcode = GRIB_SUCCESS THEN nat.m ELSE 0]

KeyTypeArgs == {"None"} \cup NativeTypes
SizeArgs == {PyNone} \cup {PyInt(n) : n \in 0..MaxLen}
LengthArgs == {PyNone, PyInt(1)}

GetArray ==
    /\ Idle
    /\ \E h \in Live(hstate), key_type \in KeyTypeArgs, size \in SizeArgs, length \in LengthArgs :
           \E tcode \in IF key_type = "None" THEN Codes ELSE {"none"},
              scode \in IF size = PyNone THEN Codes ELSE {"none"},
              lcode \in IF length = PyNone THEN Codes ELSE {"none"},
              rcode \in Codes, m \in 0..MaxLen :
               LET nat == [tcode |-> tcode, type |-> store[h].type, scode |-> scode,
                           lcode |-> lcode, rcode |-> rcode, m |-> m]
                   out == codes_get_array(key_type, size, length, nat, store[h].vals)
               IN
               /\ last' = [op |-> "codes_get_array",
                           arg |-> [h |-> h, key_type |-> key_type, size |-> size,
                                    length |-> length],
                           nat |-> Answers(out.calls, nat),
                           out |-> out]
               /\ UNCHANGED <<platform, hstate, store, istate, index, outfile>>

Get ==
    /\ Idle
    /\ \E h \in Live(hstate), key_type \in KeyTypeArgs, length \in LengthArgs :
           \E tcode \in IF key_type = "None" THEN Codes ELSE {"none"},
              lcode \in IF length = PyNone THEN Codes ELSE {"none"},
              rcode \in Codes :
               LET nat == [tcode |-> tcode, type |-> store[h].type, scode |-> "none",
                           lcode |-> lcode, rcode |-> rcode, m |-> 0]
                   out == codes_get(key_type, length, nat, store[h].vals)
               IN
               /\ last' = [op |-> "codes_get",
                           arg |-> [h |-> h, key_type |-> key_type, size |-> PyNone,
                                    length |-> length],
                           nat |-> Answers(out.calls, nat),
                           out |-> out]
               /\ UNCHANGED <<platform, hstate, store, istate, index, outfile>>

NextValues ==
    \/ SetArray
    \/ GetArray
    \/ Get
    \/ Consume

SpecValues == InitValues /\ [][NextValues]_vars

(* -------------------------------- write --------------------------------- *)
\* outfile is the stream of codes_write, kept as the contents of the write
\* calls it has received, in order.
Bytes == 0..1

\* what the memory at the address lib.codes_get_message gives may hold; the
\* encoded message is its first mess_len bytes
Memory == [1..MaxLen -> Bytes]

\* ffi.buffer(cdata, size): the size bytes at the address
ffi_buffer(mem, size) == [i \in 1..size |-> mem[i]]

\* the outcome of codes_write and the outfile.write calls it made
Written(r, writes) ==
    [exc |-> r.exc, code |-> r.code, ret |-> r.ret, writes |-> writes]

\* faulty variant: the message is written whatever the status
codes_write_Unchecked(code, mess, mess_len) ==
    Written(check_return(code), <<ffi_buffer(mess, mess_len)>>)

\* codes_write; (code, mess, mess_len): the status of lib.codes_get_message,
\* the memory at the address it gave and the length it gave
codes_write(code, mess, mess_len) ==
    LET r == check_return(code) IN
    IF r.exc # "none" THEN Written(r, <<>>)
    ELSE Written(Return(PyNone), <<ffi_buffer(mess, mess_len)>>)

\* at most MaxWrites write calls are followed on the stream
Write ==
    /\ Idle
    /\ Len(outfile) < MaxWrites
    /\ \E h \in Live(hstate), code \in Codes, mess \in Memory, mess_len \in 0..MaxLen :
           LET out == codes_write(code, mess, mess_len) IN
           /\ outfile' = outfile \o out.writes
           /\ last' = [op |-> "codes_write", arg |-> NewCData(h),
                       nat |-> [code |-> code, mess |-> mess, mess_len |-> mess_len],
                       out |-> out]
           /\ UNCHANGED <<platform, hstate, store, istate, index>>

NextWrite ==
    \/ HandleNewFromFile
    \/ Write
    \/ HandleDelete
    \/ Consume

SpecWrite == Init /\ [][NextWrite]_vars

(* ------------------------------ properties ------------------------------ *)

\* C1: a call wrapped by check_last or check_return raises EcCodesError whose
\* code is the status c the native call reported exactly when c is not
\* GRIB_SUCCESS; on GRIB_SUCCESS check_last returns the native return value
\* unchanged and check_return returns None.
C1_WrappedStatus ==
    /\ last.op = "check_last" =>
        /\ last.out.exc \in {"none", "EcCodesError"}
        /\ (last.out.exc = "EcCodesError") <=> (last.nat.code # GRIB_SUCCESS)
        /\ last.out.exc = "EcCodesError" => last.out.code = last.nat.code
        /\ last.nat.code = GRIB_SUCCESS => last.out.ret = last.nat.ret
    /\ last.op = "check_return" =>
        /\ last.out.exc \in {"none", "EcCodesError"}
        /\ (last.out.exc = "EcCodesError") <=> (last.nat.code # GRIB_SUCCESS)
        /\ last.out.exc = "EcCodesError" => last.out.code = last.nat.code
        /\ last.nat.code = GRIB_SUCCESS => last.out.ret = PyNone

\* C1 witness: a check_last call whose native function reported a failure
\* other than end of file and returned an object, and which raised
C1_Witness ==
    /\ last.op = "check_last"
    /\ last.nat.code = GRIB_NOT_FOUND
    /\ last.nat.ret = NewCData(1)
    /\ last.out.exc = "EcCodesError"

\* C2: codes_handle_new_from_file raises EOFError on a NULL handle with
\* status GRIB_SUCCESS and on status GRIB_END_OF_FILE, never EcCodesError for
\* end of input; on any other failure status it raises EcCodesError with that
\* status; it returns a handle only on GRIB_SUCCESS with a non-NULL handle.
C2_EndOfInput ==
    last.op = "codes_handle_new_from_file" =>
        /\ (last.nat.code = GRIB_SUCCESS /\ last.nat.ret.ptr = 0) => last.out.exc = "EOFError"
        /\ last.nat.code = GRIB_END_OF_FILE => last.out.exc = "EOFError"
        /\ ~(last.out.exc = "EcCodesError" /\ last.out.code = GRIB_END_OF_FILE)
        /\ last.nat.code \notin {GRIB_SUCCESS, GRIB_END_OF_FILE} =>
            last.out.exc = "EcCodesError" /\ last.out.code = last.nat.code
        /\ last.out.exc = "none" =>
            /\ last.nat.code = GRIB_SUCCESS
            /\ last.nat.ret.ptr # 0
            /\ last.out.ret = last.nat.ret

\* C2 witness: the native call reported GRIB_END_OF_FILE and the caller got
\* EOFError
C2_Witness ==
    /\ last.op = "codes_handle_new_from_file"
    /\ last.nat.code = GRIB_END_OF_FILE
    /\ last.out.exc = "EOFError"

\* C8: codes_handle_clone raises EcCodesError(GRIB_NULL_POINTER) whenever the
\* native clone call returns a NULL pointer and never returns a NULL handle;
\* a non-NULL native handle is returned.  (Violated: the code tests
\* `cloned_handle is ffi.NULL`, which is false of every returned pointer.)
C8_CloneNullPointer ==
    last.op = "codes_handle_clone" =>
        /\ last.nat.ret.ptr = 0 =>
            last.out.exc = "EcCodesError" /\ last.out.code = GRIB_NULL_POINTER
        /\ last.out.exc = "none" => last.out.ret.ptr # 0
        /\ last.nat.ret.ptr # 0 =>
            last.out.exc = "none" /\ last.out.ret = last.nat.ret

NotGribNorBufr(kind) == kind \notin {CODES_PRODUCT_GRIB, CODES_PRODUCT_BUFR}

\* the samples-directory file read yielded a handle
SampleFileHandle(nat) == nat.opened /\ nat.code = GRIB_SUCCESS /\ nat.ret.ptr # 0

DirectSampleCall(calls) ==
    \/ Called(calls, "codes_grib_handle_new_from_samples")
    \/ Called(calls, "codes_bufr_handle_new_from_samples")

\* the clauses of C9 that hold as stated: ValueError when no handle results
\* for GRIB or BUFR, never a NULL handle, and on Windows the file read first
\* and the direct native call only if it yielded no handle
C9_Common ==
    /\ (~NotGribNorBufr(last.arg.v) /\ ~SampleFileHandle(last.nat)
            /\ last.nat.sample.ptr = 0) => last.out.exc = "ValueError"
    /\ last.out.exc = "none" => last.out.ret.ptr # 0
    /\ last.out.exc \in {"none", "ValueError", "NotImplementedError"}
    /\ platform = "Windows" =>
        /\ Len(last.out.calls) >= 2
        /\ last.out.calls[1] = "codes_samples_path"
        /\ last.out.calls[2] = "open"
        /\ \A i \in DOMAIN last.out.calls :
            last.out.calls[i] \in {"codes_grib_handle_new_from_samples",
                                   "codes_bufr_handle_new_from_samples"} => i > 2
        /\ DirectSampleCall(last.out.calls) => ~SampleFileHandle(last.nat)
    /\ platform # "Windows" => ~Called(last.out.calls, "open")

\* C9 as stated: on every platform a product kind other than GRIB and BUFR
\* fails with NotImplementedError.  (Violated on Windows, where the file read
\* of the sample is made with any product kind and its handle is returned.)
C9_AsStated ==
    last.op = "codes_new_from_samples" =>
        /\ NotGribNorBufr(last.arg.v) => last.out.exc = "NotImplementedError"
        /\ C9_Common

\* C9 amended: a product kind other than GRIB and BUFR fails with
\* NotImplementedError unless the Windows file read yielded a handle, which is
\* then returned with no direct native sample call; the rest as stated.
C9_Samples ==
    last.op = "codes_new_from_samples" =>
        /\ (NotGribNorBufr(last.arg.v) /\ ~SampleFileHandle(last.nat)) =>
            last.out.exc = "NotImplementedError"
        /\ (NotGribNorBufr(last.arg.v) /\ SampleFileHandle(last.nat)) =>
            /\ platform = "Windows"
            /\ last.out.exc = "none"
            /\ last.out.ret = last.nat.ret
            /\ ~DirectSampleCall(last.out.calls)
        /\ C9_Common

\* C9 witness: on Windows a METAR sample whose file read yielded a handle
C9_Witness ==
    /\ last.op = "codes_new_from_samples"
    /\ platform = "Windows"
    /\ last.arg.v = CODES_PRODUCT_METAR
    /\ SampleFileHandle(last.nat)
    /\ last.out.exc = "none"

\* C10: no live key iterator has a released source message handle.
\* (Violated: codes_handle_delete is the native call itself and knows of no
\* iterator, and codes_keys_iterator_new records nothing.)
C10_IteratorWithinHandle ==
    \A i \in Iters : istate[i].st = "live" => hstate[istate[i].h] = "live"

\* the native select call codes_index_select issues for a value of each type
C5_Routes(errorKind) ==
    last.op = "codes_index_select" =>
        /\ isinstance(last.arg, "int") => last.out.calls = <<"codes_index_select_long">>
        /\ isinstance(last.arg, "float") => last.out.calls = <<"codes_index_select_double">>
        /\ isinstance(last.arg, "bytes") => last.out.calls = <<"codes_index_select_string">>
        /\ (~isinstance(last.arg, "int") /\ ~isinstance(last.arg, "float")
                /\ ~isinstance(last.arg, "bytes")) =>
            last.out.exc = errorKind /\ last.out.calls = <<>>

\* a codes_index_select that issued no native select call left the index as
\* it was
C5_Frame ==
    (last'.op = "codes_index_select" /\ last'.out.calls = <<>>) => index' = index

\* C5 as stated: one native select call chosen by the value's type, and a
\* TypeError with no native call and the selection unchanged for any other
\* type.  (Violated: the code raises RuntimeError.)
C5_AsStated == [](C5_Routes("TypeError")) /\ [][C5_Frame]_vars

\* C5 amended: one native select call chosen by the value's type (integer,
\* floating-point, bytes), and a RuntimeError with no native call and the
\* selection unchanged for a value of any other type.
C5_Select == [](C5_Routes("RuntimeError")) /\ [][C5_Frame]_vars

\* C5 witness: a select with None on an index holding a selection raised
\* RuntimeError
C5_Witness ==
    /\ last.op = "codes_index_select"
    /\ last.arg = PyNone
    /\ index.open /\ index.sel # PyNone
    /\ last.out.exc = "RuntimeError"

\* no further message matches the selection: the call found none left
C7_Exhausted == last.op = "codes_new_from_index" /\ last.arg.v = 0

\* C7 as stated: codes_new_from_index with no further matching message
\* raises EOFError, as reading past the last message of a stream does.
\* (Violated: the code is check_last alone and never raises EOFError.)
C7_AsStated == C7_Exhausted => last.out.exc = "EOFError"

\* C7 amended: codes_new_from_index with no further matching message never
\* raises EOFError: it raises EcCodesError carrying the status the native call
\* reported when that is not GRIB_SUCCESS, and otherwise returns the native
\* return value unchanged.
C7_IndexExhaustion ==
    C7_Exhausted =>
        /\ last.out.exc # "EOFError"
        /\ last.nat.code # GRIB_SUCCESS =>
            last.out.exc = "EcCodesError" /\ last.out.code = last.nat.code
        /\ last.nat.code = GRIB_SUCCESS =>
            last.out.exc = "none" /\ last.out.ret = last.nat.ret

\* C7 witness: the exhausted index reported GRIB_END_OF_INDEX and the caller
\* got EcCodesError
C7_Witness ==
    /\ C7_Exhausted
    /\ last.nat.code = GRIB_END_OF_INDEX
    /\ last.out.exc = "EcCodesError"

\* the native type a get reads the key as: the argument, or the type probed
EffType == IF last.arg.key_type = "None" THEN last.nat.type ELSE last.arg.key_type

\* the size a codes_get_array allocates: the argument, or what codes_get_size
\* gave, the number of values the key holds
EffSize ==
    IF last.arg.size = PyNone THEN Len(store[last.arg.h].vals) ELSE last.arg.size.v

\* codes_get_array read a key of one of the four types with the size
\* codes_get_size gives for it, and the native read succeeded
C3_Case ==
    /\ last.op = "codes_get_array"
    /\ EffType \in {CODES_TYPE_LONG, CODES_TYPE_DOUBLE, CODES_TYPE_STRING, CODES_TYPE_BYTES}
    /\ EffSize = Len(store[last.arg.h].vals)
    /\ last.nat.rcode = GRIB_SUCCESS

\* C3 as stated: for LONG, DOUBLE, STRING and BYTES a codes_get_array with
\* the size n of codes_get_size whose native read succeeds returns exactly n
\* elements, whatever count the native call writes back.  (Violated for
\* STRING: codes_get_string_array builds its list over range(size_p[0]).)
C3_AsStated ==
    C3_Case => last.out.exc = "none" /\ Len(last.out.ret.v) = EffSize

\* C3 amended: for LONG, DOUBLE and BYTES exactly n elements are returned,
\* whatever count the native call writes back; for STRING exactly the count m
\* the native call wrote back is returned when m <= n, and IndexError is
\* raised when m > n.
C3_ArraySize ==
    C3_Case =>
        /\ EffType # CODES_TYPE_STRING =>
            last.out.exc = "none" /\ Len(last.out.ret.v) = EffSize
        /\ (EffType = CODES_TYPE_STRING /\ last.nat.m <= EffSize) =>
            last.out.exc = "none" /\ Len(last.out.ret.v) = last.nat.m
        /\ (EffType = CODES_TYPE_STRING /\ last.nat.m > EffSize) =>
            last.out.exc = "IndexError"

\* C3 witness: a string array read with the default size n whose native call
\* wrote back fewer than n, and as many were returned
C3_Witness ==
    /\ C3_Case
    /\ EffType = CODES_TYPE_STRING
    /\ last.arg.size = PyNone
    /\ last.nat.m < EffSize
    /\ last.out.exc = "none"
    /\ Len(last.out.ret.v) = last.nat.m

\* the state part of C4: which error an empty or ill-typed sequence raises
\* and which setter a float-first or int-first sequence goes to
C4_Dispatch ==
    last.op = "codes_set_array" =>
        LET v == last.arg.values
            o == last.out
            goes(fn) ==
                /\ o.route = fn
                /\ Len(o.calls) <= 1
                /\ \A i \in DOMAIN o.calls :
                    /\ o.calls[i].fn = fn
                    /\ o.calls[i].size = Len(v)
                    /\ Len(o.calls[i].c_values) = Len(v)
        IN
        /\ Len(v) = 0 => o.exc = "ValueError" /\ o.calls = <<>>
        /\ (Len(v) > 0 /\ ~isinstance(v[1], "int") /\ ~isinstance(v[1], "float")) =>
            o.exc = "TypeError" /\ o.calls = <<>>
        /\ (Len(v) > 0 /\ isinstance(v[1], "float")) =>
            /\ goes("codes_set_double_array")
            /\ DoubleInitializer(v) => Len(o.calls) = 1
        /\ (Len(v) > 0 /\ isinstance(v[1], "int")) =>
            /\ goes("codes_set_long_array")
            /\ LongInitializer(v) => Len(o.calls) = 1

\* a codes_set_array that raised ValueError or TypeError left the stored
\* values of every handle as they were
C4_Frame ==
    (last'.op = "codes_set_array" /\ last'.out.exc \in {"ValueError", "TypeError"}) =>
        store' = store

\* C4: codes_set_array raises ValueError on an empty sequence and TypeError
\* on a sequence whose first element is neither an int nor a float, in both
\* cases with no native set call and the stored values unchanged; a float
\* first goes to the double-array set, an int first to the long-array set,
\* with the length of the sequence as the size.
C4_SetArray == [](C4_Dispatch) /\ [][C4_Frame]_vars

\* C4 witness: an empty sequence set on a handle that holds values raised
\* ValueError
C4_Witness ==
    /\ last.op = "codes_set_array"
    /\ last.arg.values = <<>>
    /\ store[last.arg.h].vals # <<>>
    /\ last.out.exc = "ValueError"

\* the native type of the key is known (passed in, or probed with success)
\* and is none of those in read
C6_Unread(read) ==
    /\ last.arg.key_type # "None" \/ last.nat.tcode = GRIB_SUCCESS
    /\ EffType \notin read

\* a warning, no value, no native read of the value, no error
C6_Quiet ==
    /\ last.out.warn = 1
    /\ last.out.exc = "none"
    /\ last.out.ret = PyNone
    /\ ~ReadCalled(last.out.calls)

C6_Get ==
    (last.op = "codes_get"
        /\ C6_Unread({CODES_TYPE_LONG, CODES_TYPE_DOUBLE, CODES_TYPE_STRING})) => C6_Quiet

C6_ArrayCase ==
    /\ last.op = "codes_get_array"
    /\ C6_Unread({CODES_TYPE_LONG, CODES_TYPE_DOUBLE, CODES_TYPE_STRING, CODES_TYPE_BYTES})

\* C6 as stated: on a native type this layer does not read, codes_get and
\* codes_get_array log a warning, return None, issue no native read and raise
\* nothing.  (Violated: codes_get_array asks codes_get_size before it looks
\* at the type, and a failing size query raises EcCodesError.)
C6_AsStated ==
    /\ C6_Get
    /\ C6_ArrayCase => C6_Quiet

\* C6 amended: as stated for codes_get, and for codes_get_array when the size
\* is passed in or the native size query succeeds; when codes_get_array is
\* given no size and the size query fails, EcCodesError with the query's
\* status is raised, with no warning and no native read.
C6_UnknownType ==
    /\ C6_Get
    /\ (C6_ArrayCase /\ (last.arg.size # PyNone \/ last.nat.scode = GRIB_SUCCESS)) => C6_Quiet
    /\ (C6_ArrayCase /\ last.arg.size = PyNone /\ last.nat.scode # GRIB_SUCCESS) =>
        /\ last.out.exc = "EcCodesError"
        /\ last.out.code = last.nat.scode
        /\ last.out.warn = 0
        /\ ~ReadCalled(last.out.calls)

\* C6 witness: a codes_get_array with neither type nor size given, on a key
\* probed as a section, logged the warning and returned None
C6_Witness ==
    /\ last.op = "codes_get_array"
    /\ last.arg.key_type = "None"
    /\ last.arg.size = PyNone
    /\ last.nat.type = CODES_TYPE_SECTION
    /\ C6_Quiet

\* a sequence that holds both an integer element and a floating-point element
C11_Mixed(values) ==
    /\ \E i \in DOMAIN values : values[i].t = "int"
    /\ \E i \in DOMAIN values : values[i].t = "float"

\* a codes_set_array of a mixed sequence raised an error
C11_Raises ==
    (last.op = "codes_set_array" /\ C11_Mixed(last.arg.values)) => last.out.exc # "none"

\* a codes_set_array of a mixed sequence left the stored values as they were
C11_Frame ==
    (last'.op = "codes_set_array" /\ C11_Mixed(last'.arg.values)) => store' = store

\* C11: codes_set_array rejects every mixed-type sequence: a non-empty
\* sequence with both an integer and a floating-point element, in either
\* order, raises an error and leaves the stored values of the key unchanged.
\* (Violated: only values[0] is tested; with a float first the sequence goes
\* to ffi.new("double []", values), which converts the integers, and the
\* native set stores the array.)
C11_MixedRejected == [](C11_Raises) /\ [][C11_Frame]_vars

\* w is the mess_len bytes the native library reported, byte for byte
C12_Message(w, nat) ==
    /\ Len(w) = nat.mess_len
    /\ \A i \in 1..nat.mess_len : w[i] = nat.mess[i]

\* what a codes_write call came to, by the status of the get-message call
C12_Call ==
    last.op = "codes_write" =>
        /\ last.nat.code = GRIB_SUCCESS =>
            /\ last.out.exc = "none"
            /\ Len(last.out.writes) = 1
            /\ C12_Message(last.out.writes[1], last.nat)
        /\ last.nat.code # GRIB_SUCCESS =>
            /\ last.out.exc = "EcCodesError"
            /\ last.out.code = last.nat.code
            /\ last.out.writes = <<>>

\* what a codes_write call did to the stream
C12_Frame ==
    last'.op = "codes_write" =>
        /\ last'.nat.code = GRIB_SUCCESS =>
            /\ Len(outfile') = Len(outfile) + 1
            /\ \A i \in 1..Len(outfile) : outfile'[i] = outfile[i]
            /\ C12_Message(outfile'[Len(outfile')], last'.nat)
        /\ last'.nat.code # GRIB_SUCCESS => outfile' = outfile

\* C12: codes_write, when the native get-message call succeeds, performs
\* exactly one write to the stream, whose content is exactly the mess_len
\* bytes the native library reported for the handle, unmodified; when the
\* call reports a non-success status it raises EcCodesError with that status
\* and writes nothing, leaving the stream unchanged.
C12_Write == [](C12_Call) /\ [][C12_Frame]_vars

\* C12 witness: a message shorter than the memory it lies in was written to
\* a stream that already held a write
C12_Witness ==
    /\ last.op = "codes_write"
    /\ last.nat.code = GRIB_SUCCESS
    /\ last.nat.mess_len >= 1
    /\ last.nat.mess_len < Len(last.nat.mess)
    /\ Len(outfile) = 2
    /\ outfile[2] = ffi_buffer(last.nat.mess, last.nat.mess_len)

=============================================================================
